---------------------------- MODULE Spec2Model ----------------------------
(***************************************************************************)
(* Calendar summary scripts (validated_weekly_report.py, weekly_report.py) *)
(* as a state machine: the working directory's files, main()'s position,   *)
(* and the Consolidator finalize_summary with its escalation policy.       *)
(*                                                                         *)
(* Text is a sequence of one-character strings, so that strip(), the       *)
(* substring test `"MISMATCH" in final_response` and the "\n\n" written    *)
(* after every pass are computed as Python computes them.                  *)
(***************************************************************************)
EXTENDS Integers, Sequences, FiniteSets, TLC

(***************************************************************************)
(* Bounds of the model.                                                    *)
(***************************************************************************)
\* runs of main() in one behaviour
MaxRuns == 2
\* invocations of finalize_summary made by the operator outside main(),
\* between two resets of the pass logs
MaxCalls == 3
\* .ics files glob.glob('*.ics') returns in one run
MaxFiles == 2
\* the user's date range lies in 1..MaxDate
MaxDate == 2
\* components of a calendar source whose extraction is checked on its own
MaxEvents == 2
\* the fragments a sanitized text is made of, at most
MaxFragments == 2
\* the successive calls of sanitize_information on a text, at most
MaxSanitize == 2
\* the passes appended to one log, at most
MaxPasses == 3

(***************************************************************************)
(* Text.                                                                   *)
(***************************************************************************)
\* str.strip() with no argument removes whitespace
Whitespace == {" ", "\t", "\n", "\r", "\f"}

IsSpace(c) == c \in Whitespace

RECURSIVE LStrip(_)
LStrip(s) ==
    IF s = <<>> THEN <<>>
    ELSE IF IsSpace(Head(s)) THEN LStrip(Tail(s)) ELSE s

RECURSIVE RStrip(_)
RStrip(s) ==
    IF s = <<>> THEN <<>>
    ELSE IF IsSpace(s[Len(s)]) THEN RStrip(SubSeq(s, 1, Len(s) - 1)) ELSE s

\* str.strip()
Strip(s) == RStrip(LStrip(s))

\* Python's `sub in s`
Contains(s, sub) ==
    \E i \in 1..(Len(s) - Len(sub) + 1) : SubSeq(s, i, i + Len(sub) - 1) = sub

\* the mismatch marker the two-way prompt asks for
MISMATCH == <<"M", "I", "S", "M", "A", "T", "C", "H">>

\* "No response generated."
NoResponse ==
    <<"N", "o", " ", "r", "e", "s", "p", "o", "n", "s", "e", " ",
      "g", "e", "n", "e", "r", "a", "t", "e", "d", ".">>

\* the "\n\n" analyze_and_summarize writes after each response
BlankLine == <<"\n", "\n">>

(***************************************************************************)
(* Regular expressions, as re.sub applies them: a backtracking matcher     *)
(* that yields the end positions of the matches starting at position i in  *)
(* the order Python tries them (greedy repetitions take the most first).   *)
(* A pattern is a sequence of items: a character set, a negated set, the   *)
(* word boundary \b, or a repetition {min,max} of a sub-pattern.           *)
(***************************************************************************)
LowerCase == <<"a", "b", "c", "d", "e", "f", "g", "h", "i", "j", "k", "l", "m",
               "n", "o", "p", "q", "r", "s", "t", "u", "v", "w", "x", "y", "z">>
UpperCase == <<"A", "B", "C", "D", "E", "F", "G", "H", "I", "J", "K", "L", "M",
               "N", "O", "P", "Q", "R", "S", "T", "U", "V", "W", "X", "Y", "Z">>
Range(f) == { f[k] : k \in DOMAIN f }
Letters == Range(LowerCase) \cup Range(UpperCase)
Digits == {"0", "1", "2", "3", "4", "5", "6", "7", "8", "9"}
\* \w
WordChars == Letters \cup Digits \cup {"_"}
\* \s
SpaceChars == {" ", "\t", "\n", "\r", "\f"}
\* no upper bound on a repetition
Unbounded == 0 - 1

\* both cases of a character (flags=re.IGNORECASE)
BothCases(c) ==
    {c} \cup { LowerCase[k] : k \in { j \in 1..26 : UpperCase[j] = c } }
        \cup { UpperCase[k] : k \in { j \in 1..26 : LowerCase[j] = c } }

In(set) == [t |-> "in", s |-> set]
NotIn(set) == [t |-> "notin", s |-> set]
Boundary == [t |-> "b"]
Rep(items, min, max) == [t |-> "rep", r |-> items, min |-> min, max |-> max]
Opt(items) == Rep(items, 0, 1)
Plus(item) == Rep(<<item>>, 1, Unbounded)
\* a literal string, matched case-insensitively
RECURSIVE Lit(_)
Lit(str) == IF str = <<>> THEN <<>> ELSE <<In(BothCases(Head(str)))>> \o Lit(Tail(str))

IsWordAt(s, k) == k \in 1..Len(s) /\ s[k] \in WordChars

RECURSIVE MatchSeq(_, _, _), MatchSeqFrom(_, _, _), MatchItem(_, _, _),
          MatchRep(_, _, _, _, _), MatchRepFrom(_, _, _, _, _, _)
\* the ends of the matches of one item at i
MatchItem(item, s, i) ==
    CASE item.t = "in" ->
            IF i <= Len(s) /\ s[i] \in item.s THEN <<i + 1>> ELSE <<>>
      [] item.t = "notin" ->
            IF i <= Len(s) /\ s[i] \notin item.s THEN <<i + 1>> ELSE <<>>
      [] item.t = "b" ->
            IF IsWordAt(s, i - 1) # IsWordAt(s, i) THEN <<i>> ELSE <<>>
      [] item.t = "rep" -> MatchRep(item.r, item.min, item.max, s, i)
\* the ends of the matches of a sequence of items at i
MatchSeq(items, s, i) ==
    IF items = <<>> THEN <<i>>
    ELSE MatchSeqFrom(Tail(items), s, MatchItem(Head(items), s, i))
MatchSeqFrom(items, s, ends) ==
    IF ends = <<>> THEN <<>>
    ELSE MatchSeq(items, s, Head(ends)) \o MatchSeqFrom(items, s, Tail(ends))
\* greedy repetition: one more iteration is tried before stopping
MatchRep(items, min, max, s, i) ==
    (IF max = 0 THEN <<>>
     ELSE MatchRepFrom(items, min, max, s, i, MatchSeq(items, s, i)))
    \o (IF min <= 0 THEN <<i>> ELSE <<>>)
MatchRepFrom(items, min, max, s, i, ends) ==
    IF ends = <<>> THEN <<>>
    ELSE (IF Head(ends) > i
          THEN MatchRep(items, min - 1, IF max > 0 THEN max - 1 ELSE max, s, Head(ends))
          ELSE <<>>)
         \o MatchRepFrom(items, min, max, s, i, Tail(ends))

\* '[redacted]'
Redacted == <<"[", "r", "e", "d", "a", "c", "t", "e", "d", "]">>

\* re.sub(pattern, '[redacted]', text) from position i on: the leftmost match
\* is replaced and the scan resumes after it
RECURSIVE SubFrom(_, _, _)
SubFrom(pattern, s, i) ==
    IF i > Len(s) THEN <<>>
    ELSE LET ends == MatchSeq(pattern, s, i)
         IN  IF ends # <<>> /\ Head(ends) > i
             THEN Redacted \o SubFrom(pattern, s, Head(ends))
             ELSE <<s[i]>> \o SubFrom(pattern, s, i + 1)

Sub(pattern, s) == SubFrom(pattern, s, 1)

(***************************************************************************)
(* sanitize_information: the eight patterns, applied one after the other,  *)
(* each to the result of the one before.                                   *)
(***************************************************************************)
D == In(Digits)
SepOpt == Opt(<<In(SpaceChars \cup {"-"})>>)
EmailLocal == In(Letters \cup Digits \cup {"_", ".", "+", "-"})
EmailHost == In(Letters \cup Digits \cup {"-"})
EmailTail == In(Letters \cup Digits \cup {"-", "."})

\* [a-zA-Z0-9_.+-]+@[a-zA-Z0-9-]+\.[a-zA-Z0-9-.]+
PatEmail == <<Plus(EmailLocal), In({"@"}), Plus(EmailHost), In({"."}), Plus(EmailTail)>>
\* \(\d{3}\)\s\d{3}-\d{4}
PatUsPhone ==
    <<In({"("}), Rep(<<D>>, 3, 3), In({")"}), In(SpaceChars), Rep(<<D>>, 3, 3),
      In({"-"}), Rep(<<D>>, 4, 4)>>
\* \+\d{1,3}\s?(\(\d{1,3}\))?\s?\d{1,4}[\s-]?\d{1,4}[\s-]?\d{1,4}(?:[\s-]?\d{1,4})?
PatIntlPhone ==
    <<In({"+"}), Rep(<<D>>, 1, 3), Opt(<<In(SpaceChars)>>),
      Opt(<<In({"("}), Rep(<<D>>, 1, 3), In({")"})>>), Opt(<<In(SpaceChars)>>),
      Rep(<<D>>, 1, 4), SepOpt, Rep(<<D>>, 1, 4), SepOpt, Rep(<<D>>, 1, 4),
      Opt(<<SepOpt, Rep(<<D>>, 1, 4)>>)>>
\* \bhttps?:\/\/[^\s]+
PatUrl ==
    <<Boundary>> \o Lit(<<"h", "t", "t", "p">>) \o <<Opt(Lit(<<"s">>))>>
    \o Lit(<<":", "/", "/">>) \o <<Plus(NotIn(SpaceChars))>>
\* \bMeeting ID: \S+
PatMeetingId ==
    <<Boundary>> \o Lit(<<"M", "e", "e", "t", "i", "n", "g", " ", "I", "D", ":", " ">>)
    \o <<Plus(NotIn(SpaceChars))>>
\* \bPasscode: \S+
PatPasscode ==
    <<Boundary>> \o Lit(<<"P", "a", "s", "s", "c", "o", "d", "e", ":", " ">>)
    \o <<Plus(NotIn(SpaceChars))>>
\* \bPIN: \d+
PatPin == <<Boundary>> \o Lit(<<"P", "I", "N", ":", " ">>) \o <<Plus(D)>>
\* \bID: \d{9,11}
PatId == <<Boundary>> \o Lit(<<"I", "D", ":", " ">>) \o <<Rep(<<D>>, 9, 11)>>

\* lines 45-54, in the list's order
patterns ==
    <<PatEmail, PatUsPhone, PatIntlPhone, PatUrl, PatMeetingId, PatPasscode,
      PatPin, PatId>>

RECURSIVE ApplyPatterns(_, _)
ApplyPatterns(pats, text) ==
    IF pats = <<>> THEN text
    ELSE ApplyPatterns(Tail(pats), Sub(Head(pats), text))

\* lines 55-57
sanitize_information(text) == ApplyPatterns(patterns, text)

\* sanitize_information over a set of texts, as a table computed once
SanitizedOver(texts) == [text \in texts |-> sanitize_information(text)]

(***************************************************************************)
(* The generation service.  llm(...) returns a dict; the scripts read      *)
(* output.get('choices') and output['choices'][0]['text'].                 *)
(***************************************************************************)
\* texts the service may generate: empty, text with leading whitespace,
\* text holding the mismatch marker
Texts == { <<>>, <<" ", "o", "k">>, MISMATCH }

Outputs == { [choices |-> <<>>] } \cup { [choices |-> <<[text |-> t]>>] : t \in Texts }

\* what the service returns for the day passes of main(): no choices, or an
\* empty text
PassOutputs == { [choices |-> <<>>], [choices |-> <<[text |-> <<>>]>>] }

(***************************************************************************)
(* The working directory.                                                  *)
(***************************************************************************)
\* a file: missing, or its text
Absent == [exists |-> FALSE, text |-> <<>>]
File(text) == [exists |-> TRUE, text |-> text]

Log1 == "summary.txt"
Log2 == "summary2.txt"
Log3 == "summary3.txt"
Final == "final_summary.txt"

FileNames == {Log1, Log2, Log3, Final}

\* os.path.exists
Exists(files, name) == files[name].exists

\* open(name, 'w').close()
Truncate(files, name) == [files EXCEPT ![name] = File(<<>>)]

\* the file opened in 'w' mode
AppendToRewriting(files, name, text) == [files EXCEPT ![name] = File(text)]

\* open(name, 'a'); file.write(text): creates the file when it is missing
AppendTo(files, name, text) ==
    [files EXCEPT ![name] = File(@.text \o text)]

\* the final report opened in append mode
WriteFinalAppending(files, final_response) == AppendTo(files, Final, final_response)

\* the final report written, and the two pass logs emptied after it
WriteFinalTruncatingLogs(files, final_response) ==
    Truncate(Truncate([files EXCEPT ![Final] = File(final_response)], Log1), Log2)

\* lines 217-218: open('final_summary.txt', 'w'); file.write(final_response)
WriteFinal(files, final_response) == [files EXCEPT ![Final] = File(final_response)]

(***************************************************************************)
(* analyze_and_summarize: one pass.  `output` is what the service returns  *)
(* for the prompt built from text and event_date.                          *)
(***************************************************************************)
PassResponse(output) ==
    IF output.choices # <<>> THEN output.choices[1].text ELSE NoResponse

analyze_and_summarize_overwriting(files, text, output, event_date, summary_file) ==
    [ fs       |-> [files EXCEPT ![summary_file] = File(PassResponse(output) \o BlankLine)],
      prompt   |-> [event_date |-> event_date, text |-> text],
      response |-> PassResponse(output) ]

analyze_and_summarize(files, text, output, event_date, summary_file) ==
    [ fs       |-> AppendTo(files, summary_file, PassResponse(output) \o BlankLine),
      prompt   |-> [event_date |-> event_date, text |-> text],
      response |-> PassResponse(output) ]

(***************************************************************************)
(* finalize_summary.                                                       *)
(***************************************************************************)
\* a log read through a missing os.path.exists guard raises
ReadLogUnguarded(files, name) ==
    IF Exists(files, name) THEN Strip(files[name].text) ELSE <<"FileNotFoundError">>

\* lines 163-172: text = "", replaced by read().strip() when the file exists
ReadLog(files, name) ==
    IF Exists(files, name) THEN Strip(files[name].text) ELSE <<>>

SummariesExistIfFilePresent(text3, files) == Exists(files, Log3)

\* line 175: summaries_exist = text3 != ""
SummariesExist(text3, files) == text3 # <<>>

\* lines 178-197: the comparison prompt, by its template and its fields
ComparisonPrompt(files) ==
    LET text1 == ReadLog(files, Log1)
        text2 == ReadLog(files, Log2)
        text3 == ReadLog(files, Log3)
    IN  IF SummariesExist(text3, files)
        THEN [kind |-> "three_way", text1 |-> text1, text2 |-> text2, text3 |-> text3]
        ELSE [kind |-> "two_way", text1 |-> text1, text2 |-> text2, text3 |-> <<>>]

\* line 201
FinalResponse(output) ==
    IF output.choices # <<>> THEN Strip(output.choices[1].text) ELSE NoResponse

\* an escalation that calls finalize_summary again after the third pass
EscalateRecursing(files, text1, text2, output3) ==
    LET a == analyze_and_summarize(files, text1 \o <<"\n">> \o text2, output3, "now", Log3)
        b == analyze_and_summarize(a.fs, text1 \o <<"\n">> \o text2, output3, "now", Log3)
    IN  IF Strip(a.fs[Log3].text) = <<>>
        THEN [fs |-> b.fs, third_passes |-> 2, reentries |-> 1, third_prompt |-> b.prompt,
              third_response |-> b.response]
        ELSE [fs |-> a.fs, third_passes |-> 1, reentries |-> 1, third_prompt |-> a.prompt,
              third_response |-> a.response]

\* a third pass over text1 + text2, without the newline between them
EscalateWithoutNewline(files, text1, text2, output3) ==
    LET a == analyze_and_summarize(files, text1 \o text2, output3, "now", Log3)
    IN  [fs |-> a.fs, third_passes |-> 1, reentries |-> 0, third_prompt |-> a.prompt,
         third_response |-> a.response]

\* a third pass that is also written out as the final report
EscalateWritingReport(files, text1, text2, output3) ==
    LET a == analyze_and_summarize(files, text1 \o <<"\n">> \o text2, output3, "now", Log3)
    IN  [fs |-> [a.fs EXCEPT ![Final] = File(a.response)], third_passes |-> 1,
         reentries |-> 0, third_prompt |-> a.prompt, third_response |-> a.response]

\* lines 204-210: one third pass over text1 + "\n" + text2, no recursive call
Escalate(files, text1, text2, output3) ==
    LET a == analyze_and_summarize(files, text1 \o <<"\n">> \o text2, output3, "now", Log3)
    IN  [fs |-> a.fs, third_passes |-> 1, reentries |-> 0, third_prompt |-> a.prompt,
         third_response |-> a.response]

NoPrompt == [event_date |-> "none", text |-> <<>>]

\* what a call returns: None, or a text
ReturnsNone == [is_none |-> TRUE, text |-> <<>>]

\* lines 163-219.  output answers the comparison prompt, output3 the third
\* pass's prompt (used on escalation only).  The function returns None.
finalize_summary(files, output, output3) ==
    LET prompt          == ComparisonPrompt(files)
        summaries_exist == prompt.kind = "three_way"
        final_response  == FinalResponse(output)
        mismatch        == Contains(final_response, MISMATCH)
        common == [ prompt |-> prompt, output |-> output,
                    final_response |-> final_response, returned |-> ReturnsNone ]
    IN  IF mismatch /\ ~summaries_exist
        THEN LET e == Escalate(files, prompt.text1, prompt.text2, output3)
             IN  [ outcome |-> "MismatchEscalated", fs |-> e.fs,
                   third_passes |-> e.third_passes, entries |-> 1 + e.reentries,
                   third_prompt |-> e.third_prompt, third_response |-> e.third_response,
                   llm_calls |-> 1 + e.third_passes ]
                 @@ common
        ELSE IF mismatch /\ summaries_exist
        THEN [ outcome |-> "MismatchTerminal", fs |-> files,
               third_passes |-> 0, entries |-> 1,
               third_prompt |-> NoPrompt, third_response |-> <<>>,
               llm_calls |-> 1 ] @@ common
        ELSE [ outcome |-> "Consistent", fs |-> WriteFinal(files, final_response),
               third_passes |-> 0, entries |-> 1,
               third_prompt |-> NoPrompt, third_response |-> <<>>,
               llm_calls |-> 1 ] @@ common

(***************************************************************************)
(* Calendar sources and process_ics_file.                                  *)
(***************************************************************************)
\* a property of a component: its text, or None when it is not carried
None == [present |-> FALSE, text |-> <<>>]
Prop(text) == [present |-> TRUE, text |-> text]
\* str(None)
StrNone == <<"N", "o", "n", "e">>
\* "This event was created by"
CreatedBy ==
    <<"T", "h", "i", "s", " ", "e", "v", "e", "n", "t", " ", "w", "a", "s", " ", "c", "r", "e", "a", "t", "e", "d", " ", "b", "y">>
\* "No description"
NoDescription == <<"N", "o", " ", "d", "e", "s", "c", "r", "i", "p", "t", "i", "o", "n">>
\* "No location specified"
NoLocation ==
    <<"N", "o", " ", "l", "o", "c", "a", "t", "i", "o", "n", " ", "s", "p", "e", "c", "i", "f", "i", "e", "d">>

\* a calendar day is an integer, a time zone its UTC offset in hours
HoursPerDay == 24

\* DTSTART: a date, a naive datetime (tzinfo None), an aware datetime with
\* its UTC offset, or no DTSTART at all
DateValue(day) == [kind |-> "date", day |-> day, hour |-> 0, utcoffset |-> 0]
NaiveValue(day, hour) == [kind |-> "naive", day |-> day, hour |-> hour, utcoffset |-> 0]
AwareValue(day, hour, utcoffset) ==
    [kind |-> "aware", day |-> day, hour |-> hour, utcoffset |-> utcoffset]
NoDtstart == [kind |-> "None", day |-> 0, hour |-> 0, utcoffset |-> 0]

(***************************************************************************)
(* The calendar components of the model's sources.                         *)
(***************************************************************************)
Component(name, dtstart, summary, description, location) ==
    [ name |-> name, dtstart |-> dtstart, summary |-> summary,
      description |-> description, location |-> location ]

\* "Call bob@x.io"
TextEmail == <<"C", "a", "l", "l", " ", "b", "o", "b", "@", "x", ".", "i", "o">>
\* "This event was created by Calendly"
TextAuto ==
    <<"T", "h", "i", "s", " ", "e", "v", "e", "n", "t", " ", "w", "a", "s", " ", "c", "r", "e", "a", "t", "e", "d", " ", "b", "y", " ", "C", "a", "l", "e", "n", "d", "l", "y">>
\* "This event was created by@x.io"
TextAutoMail ==
    <<"T", "h", "i", "s", " ", "e", "v", "e", "n", "t", " ", "w", "a", "s", " ", "c", "r", "e", "a", "t", "e", "d", " ", "b", "y", "@", "x", ".", "i", "o">>
\* "https://zoom.us/j/1"
TextUrl ==
    <<"h", "t", "t", "p", "s", ":", "/", "/", "z", "o", "o", "m", ".", "u", "s", "/", "j", "/", "1">>

\* an all-day event on day 1
EvAllDay == Component("VEVENT", DateValue(1), Prop(<<"A">>), None, None)
\* a naive datetime on day 2, with an email address and a URL to redact
EvNaive ==
    Component("VEVENT", NaiveValue(2, 23), Prop(<<"B">>), Prop(TextEmail), Prop(TextUrl))
\* 01:00 UTC on day 2: day 1 for a user west of UTC
EvAware == Component("VEVENT", AwareValue(2, 1, 0), Prop(<<"C">>), Prop(<<>>), None)
\* an event a scheduling add-on generated, on day 1
EvAuto == Component("VEVENT", DateValue(1), Prop(<<"D">>), Prop(TextAuto), None)
\* a generated event whose marker phrase runs into an email address, on day 1
EvAutoMail == Component("VEVENT", DateValue(1), Prop(<<"F">>), Prop(TextAutoMail), None)
\* 23:00 at UTC-2 on day 2: day 3 for a user at UTC
EvNextDay == Component("VEVENT", AwareValue(2, 23, 0 - 2), None, None, None)
\* a component that is no event
CompTimezone == Component("VTIMEZONE", NoDtstart, None, None, None)
\* a VEVENT that carries no DTSTART
EvNoStart == Component("VEVENT", NoDtstart, Prop(<<"E">>), None, None)

Components ==
    {EvAllDay, EvNaive, EvAware, EvAuto, EvAutoMail, EvNextDay, CompTimezone, EvNoStart}

\* the texts process_ics_file sanitizes: the descriptions and locations of
\* the components, and the default location
Sanitized ==
    SanitizedOver({ c.description.text : c \in Components }
                  \cup { c.location.text : c \in Components } \cup {NoLocation})

\* lines 79-83: the datetime in the user's zone, as hours since day 0
LocalHours(dtstart, user_tz) ==
    IF dtstart.kind = "naive"
    THEN dtstart.day * HoursPerDay + dtstart.hour
    ELSE dtstart.day * HoursPerDay + dtstart.hour - dtstart.utcoffset + user_tz

\* lines 85, 88: event_date
EventDate(dtstart, user_tz) ==
    IF dtstart.kind \in {"naive", "aware"}
    THEN LocalHours(dtstart, user_tz) \div HoursPerDay
    ELSE dtstart.day

\* lines 84, 87: dtstart_str, by its fields
DtstartStr(dtstart, user_tz) ==
    IF dtstart.kind \in {"naive", "aware"}
    THEN [format |-> "%Y-%m-%d %H:%M",
          day |-> LocalHours(dtstart, user_tz) \div HoursPerDay,
          hour |-> LocalHours(dtstart, user_tz) % HoursPerDay]
    ELSE [format |-> "%Y-%m-%d", day |-> dtstart.day, hour |-> 0]

\* line 90
Description(component) ==
    IF component.description.present /\ component.description.text # <<>>
    THEN Sanitized[component.description.text]
    ELSE NoDescription

\* lines 93-94
Location(component) ==
    Sanitized[IF component.location.present /\ component.location.text # <<>>
              THEN component.location.text ELSE NoLocation]

\* lines 96-101: event_details, by its four labelled fields
EventDetails(component, user_tz) ==
    [ Event       |-> IF component.summary.present
                      THEN component.summary.text ELSE StrNone,
      Time        |-> DtstartStr(component.dtstart, user_tz),
      Description |-> Description(component),
      Location    |-> Location(component) ]

InRangeExclusiveEnd(start_date, event_date, end_date) ==
    start_date <= event_date /\ event_date < end_date

\* line 95
InRange(start_date, event_date, end_date) ==
    start_date <= event_date /\ event_date <= end_date

EmptyDict == [k \in {} |-> <<>>]

\* dict.setdefault(key, []).append(value)
SetDefaultAppend(dict, key, value) ==
    IF key \in DOMAIN dict
    THEN [dict EXCEPT ![key] = Append(@, value)]
    ELSE [k \in DOMAIN dict \cup {key} |-> IF k = key THEN <<value>> ELSE dict[k]]

\* raw_events_<date>.txt, by the number of entries appended to it
AppendRaw(raw, event_date) ==
    [k \in DOMAIN raw \cup {event_date} |->
        IF k = event_date
        THEN (IF k \in DOMAIN raw THEN raw[k] ELSE 0) + 1
        ELSE raw[k]]

\* lines 76-105: the loop over calendar.walk().  A VEVENT without DTSTART
\* raises (None has no attribute dt) and leaves what was written so far.
RECURSIVE Walk(_, _, _, _, _, _)
Walk(components, start_date, end_date, user_tz, events_by_day, raw) ==
    IF components = <<>>
    THEN [raised |-> FALSE, events_by_day |-> events_by_day, raw |-> raw]
    ELSE LET component == Head(components)
             rest      == Tail(components)
         IN  IF component.name # "VEVENT"
             THEN Walk(rest, start_date, end_date, user_tz, events_by_day, raw)
             ELSE IF component.dtstart = NoDtstart
             THEN [raised |-> TRUE, events_by_day |-> events_by_day, raw |-> raw]
             ELSE IF Contains(Description(component), CreatedBy)
             THEN Walk(rest, start_date, end_date, user_tz, events_by_day, raw)
             ELSE LET event_date == EventDate(component.dtstart, user_tz)
                  IN  IF InRange(start_date, event_date, end_date)
                      THEN Walk(rest, start_date, end_date, user_tz,
                                SetDefaultAppend(events_by_day, event_date,
                                                 EventDetails(component, user_tz)),
                                AppendRaw(raw, event_date))
                      ELSE Walk(rest, start_date, end_date, user_tz, events_by_day, raw)

MinTakingLatest(S) == CHOOSE m \in S : \A k \in S : m >= k

Min(S) == CHOOSE m \in S : \A k \in S : m <= k

\* line 106: sorted(events_by_day.items(), key=lambda x: x[0])
RECURSIVE SortedItems(_)
SortedItems(dict) ==
    IF DOMAIN dict = {} THEN <<>>
    ELSE LET m == Min(DOMAIN dict)
         IN  <<[date |-> m, events |-> dict[m]]>>
             \o SortedItems([k \in DOMAIN dict \ {m} |-> dict[k]])

\* lines 72-107.  A source that cannot be opened or parsed raises at once.
process_ics_file(source, start_date, end_date, user_tz, raw) ==
    IF ~source.parsable
    THEN [raised |-> TRUE, sorted_events_by_day |-> <<>>, raw |-> raw]
    ELSE LET w == Walk(source.components, start_date, end_date, user_tz, EmptyDict, raw)
         IN  [ raised |-> w.raised,
               sorted_events_by_day |->
                   IF w.raised THEN <<>> ELSE SortedItems(w.events_by_day),
               raw |-> w.raw ]

(***************************************************************************)
(* The inputs: the sources, the .ics files of the directory, the dates the  *)
(* user types, the user's time zone.                                       *)
(***************************************************************************)
SeqsUpTo(S, n) == UNION { [1..k -> S] : k \in 0..n }

\* the sources whose extraction is checked on its own
Sources ==
    { [parsable |-> TRUE, components |-> cs] : cs \in SeqsUpTo(Components, MaxEvents) }
    \cup { [parsable |-> FALSE, components |-> <<>>] }

\* the .ics files the working directory may hold
Calendars ==
    [ f \in {"a.ics", "b.ics", "bad.ics"} |->
        CASE f = "a.ics" ->
               [parsable |-> TRUE,
                components |-> <<CompTimezone, EvAllDay, EvAuto, EvNaive>>]
          [] f = "b.ics" -> [parsable |-> TRUE, components |-> <<EvAware>>]
          [] f = "bad.ics" -> [parsable |-> FALSE, components |-> <<>>] ]

\* glob.glob('*.ics'): some of the files, in any order
Listings ==
    { l \in SeqsUpTo(DOMAIN Calendars, MaxFiles) :
        \A i, j \in DOMAIN l : i # j => l[i] # l[j] }

\* what the user types at a date prompt: a date in the expected format, or
\* text strptime("%m-%d-%Y") rejects
DateInputs ==
    { [format |-> "mm-dd-yyyy", date |-> d] : d \in 1..MaxDate }
    \cup { [format |-> "yyyy-mm-dd", date |-> 1] }

\* lines 232-233: datetime.datetime.strptime(input, "%m-%d-%Y").date(), which
\* raises ValueError on any other text
Strptime(input) ==
    IF input.format = "mm-dd-yyyy"
    THEN [raised |-> FALSE, date |-> input.date]
    ELSE [raised |-> TRUE, date |-> 0]

\* get_localzone(): UTC, or five hours west of it
UserZones == {0, 0 - 5}

(***************************************************************************)
(* State.                                                                  *)
(***************************************************************************)
VARIABLES
    fs,          \* the working directory: file name -> Absent or its text
    raw,         \* raw_events_<date>.txt: date -> entries appended
    pc,          \* where main() is: idle, loop, days, done, crashed, exited
    runs,        \* runs of main() started
    range,       \* main()'s start_date, end_date and user_tz
    ics_files,   \* main(): the files the for loop has still to process
    buckets,     \* main(): the days of the current file still to summarize
    run,         \* history of the current run of main()
    last,        \* history: the last invocation of finalize_summary
    op,          \* history: the operator's invocations since the logs' reset
    ext,         \* a call of process_ics_file on its own, and its result
    env,         \* what main() finds: the model file, the .ics files, the zone
    san,         \* calls of sanitize_information on a text, and their results
    plog         \* calls of analyze_and_summarize on one log: outputs, responses

vars ==
    <<fs, raw, pc, runs, range, ics_files, buckets, run, last, op, ext, env, san, plog>>

NoRange == [start_date |-> 0, end_date |-> 0, user_tz |-> 0]
NoRun ==
    [ identical |-> TRUE, days |-> 0, log3_created |-> FALSE, dates |-> <<>>,
      texts |-> <<>>, third_erased |-> FALSE ]
NoOp == [calls |-> 0, escalated |-> FALSE]
NoEnv == [model_exists |-> FALSE, listing |-> <<>>, user_tz |-> 0]
NoSan == [text |-> <<>>, calls |-> 0, prev |-> <<>>, cur |-> <<>>]
NoLog == [outputs |-> <<>>, responses |-> <<>>]
\* the machine main() runs on: with or without the model file, the .ics
\* files glob.glob returns, the local zone
Environments ==
    { [model_exists |-> m, listing |-> l, user_tz |-> tz] :
        m \in BOOLEAN, l \in Listings, tz \in UserZones }
NoComparison == [kind |-> "none", text1 |-> <<>>, text2 |-> <<>>, text3 |-> <<>>]
NoResult == [raised |-> FALSE, sorted_events_by_day |-> <<>>, raw |-> EmptyDict]
NoExt == [ source |-> [parsable |-> FALSE, components |-> <<>>], start_date |-> 0,
           end_date |-> 0, user_tz |-> 0, called |-> FALSE, result |-> NoResult ]

NoCall ==
    [ caller |-> "none", before |-> [f \in FileNames |-> Absent],
      outcome |-> "none", prompt |-> NoComparison, output |-> [choices |-> <<>>],
      final_response |-> <<>>, returned |-> ReturnsNone, third_passes |-> 0,
      entries |-> 0, third_prompt |-> NoPrompt, third_response |-> <<>>,
      llm_calls |-> 0, escalated_before |-> FALSE ]

\* what an invocation of finalize_summary leaves in the history
CallRecord(caller, files, r, escalated_before) ==
    [ caller |-> caller, before |-> files, outcome |-> r.outcome,
      prompt |-> r.prompt, output |-> r.output,
      final_response |-> r.final_response, returned |-> r.returned,
      third_passes |-> r.third_passes, entries |-> r.entries,
      third_prompt |-> r.third_prompt, third_response |-> r.third_response,
      llm_calls |-> r.llm_calls, escalated_before |-> escalated_before ]

(***************************************************************************)
(* main() of validated_weekly_report.py.                                   *)
(***************************************************************************)
\* a fresh working directory
Init ==
    /\ env \in Environments
    /\ san = NoSan
    /\ plog = NoLog
    /\ fs = [f \in FileNames |-> Absent]
    /\ raw = EmptyDict
    /\ pc = "idle"
    /\ runs = 0
    /\ range = NoRange
    /\ ics_files = <<>>
    /\ buckets = <<>>
    /\ run = NoRun
    /\ last = NoCall
    /\ op = NoOp
    /\ ext = NoExt

ResetLogsKeepingThird(files) == Truncate(Truncate(files, Log1), Log2)

\* lines 248-250
ResetLogs(files) == Truncate(Truncate(Truncate(files, Log1), Log2), Log3)

\* lines 228-250: the prompts, the model file, the glob, the reset of the logs
MainStart ==
    /\ pc \in {"idle", "done", "crashed", "exited"}
    /\ runs < MaxRuns
    /\ runs' = runs + 1
    /\ last' = NoCall
    /\ buckets' = <<>>
    /\ \E start_date_input \in DateInputs, end_date_input \in DateInputs :
          IF Strptime(start_date_input).raised \/ Strptime(end_date_input).raised
          THEN \* ValueError, uncaught
               /\ pc' = "crashed"
               /\ range' = NoRange
               /\ ics_files' = <<>>
               /\ UNCHANGED <<fs, op>>
          ELSE IF ~env.model_exists \/ env.listing = <<>>
          THEN \* sys.exit: no model file, or no .ics file
               /\ pc' = "exited"
               /\ range' = NoRange
               /\ ics_files' = <<>>
               /\ UNCHANGED <<fs, op>>
          ELSE /\ pc' = "loop"
               /\ range' = [ start_date |-> Strptime(start_date_input).date,
                             end_date |-> Strptime(end_date_input).date,
                             user_tz |-> env.user_tz ]
               /\ ics_files' = env.listing
               /\ fs' = ResetLogs(fs)
               /\ op' = NoOp
    /\ run' = [NoRun EXCEPT !.log3_created = ~Exists(fs, Log3) /\ Exists(fs', Log3),
                            !.third_erased = fs[Log3].text # <<>> /\ fs'[Log3].text = <<>>]
    /\ UNCHANGED <<raw, ext, env, san, plog>>

\* the next file, its days already summarized for an earlier file left out
ProcessFileOncePerDate ==
    /\ pc = "loop"
    /\ ics_files # <<>>
    /\ LET r == process_ics_file(Calendars[Head(ics_files)], range.start_date,
                                 range.end_date, range.user_tz, raw)
           fresh == SelectSeq(r.sorted_events_by_day,
                              LAMBDA b : \A i \in 1..Len(run.dates) : run.dates[i] # b.date)
       IN  /\ raw' = r.raw
           /\ ics_files' = Tail(ics_files)
           /\ buckets' = fresh
           /\ pc' = IF r.raised THEN "crashed"
                    ELSE IF fresh = <<>> THEN "loop" ELSE "days"
    /\ UNCHANGED <<fs, runs, range, run, last, op, ext, env, san, plog>>

\* lines 252-254: the next file of the for loop
ProcessFile ==
    /\ pc = "loop"
    /\ ics_files # <<>>
    /\ LET r == process_ics_file(Calendars[Head(ics_files)], range.start_date,
                                 range.end_date, range.user_tz, raw)
       IN  /\ raw' = r.raw
           /\ ics_files' = Tail(ics_files)
           /\ buckets' = r.sorted_events_by_day
           /\ pc' = IF r.raised THEN "crashed"
                    ELSE IF r.sorted_events_by_day = <<>> THEN "loop" ELSE "days"
    /\ UNCHANGED <<fs, runs, range, run, last, op, ext, env, san, plog>>

\* one day summarized by the first pass only
SummarizeDaySinglePass ==
    /\ pc = "days"
    /\ \E output1 \in PassOutputs :
          LET day == Head(buckets)
              a1  == analyze_and_summarize(fs, day.events, output1, day.date, Log1)
          IN  /\ fs' = a1.fs
              /\ run' = [run EXCEPT !.days = @ + 1, !.dates = Append(@, day.date),
                                    !.texts = Append(@, a1.prompt.text)]
    /\ buckets' = Tail(buckets)
    /\ pc' = IF Tail(buckets) = <<>> THEN "loop" ELSE "days"
    /\ UNCHANGED <<raw, runs, range, ics_files, last, op, ext, env, san, plog>>

\* lines 255-258: one day of the current file, summarized by two passes
SummarizeDay ==
    /\ pc = "days"
    /\ \E output1 \in PassOutputs, output2 \in PassOutputs :
          LET day == Head(buckets)
              a1  == analyze_and_summarize(fs, day.events, output1, day.date, Log1)
              a2  == analyze_and_summarize(a1.fs, day.events, output2, day.date, Log2)
          IN  /\ fs' = a2.fs
              /\ run' = [run EXCEPT !.identical = @ /\ a1.response = a2.response,
                                    !.days = @ + 1,
                                    !.dates = Append(@, day.date),
                                    !.texts = Append(@, a2.prompt.text)]
    /\ buckets' = Tail(buckets)
    /\ pc' = IF Tail(buckets) = <<>> THEN "loop" ELSE "days"
    /\ UNCHANGED <<raw, runs, range, ics_files, last, op, ext, env, san, plog>>

\* finalize_summary called again after an escalation
MainFinalizeTwice ==
    /\ pc = "loop"
    /\ ics_files = <<>>
    /\ \E output \in Outputs, output3 \in Outputs :
          LET r1 == finalize_summary(fs, output, output3)
              r  == IF r1.outcome = "MismatchEscalated"
                    THEN finalize_summary(r1.fs, output, output3) ELSE r1
          IN  /\ fs' = r.fs
              /\ last' = CallRecord("main", r1.fs, r, FALSE)
    /\ pc' = "done"
    /\ UNCHANGED <<raw, runs, range, ics_files, buckets, run, op, ext, env, san, plog>>

\* line 260
MainFinalize ==
    /\ pc = "loop"
    /\ ics_files = <<>>
    /\ \E output \in Outputs, output3 \in Outputs :
          LET r == finalize_summary(fs, output, output3)
          IN  /\ fs' = r.fs
              /\ last' = CallRecord("main", fs, r, FALSE)
    /\ pc' = "done"
    /\ UNCHANGED <<raw, runs, range, ics_files, buckets, run, op, ext, env, san, plog>>

Next == MainStart \/ ProcessFile \/ SummarizeDay \/ MainFinalize

Spec == Init /\ [][Next]_vars

(***************************************************************************)
(* finalize_summary invoked by the operator on the logs a run left, as the *)
(* comment at line 210 asks ("Call `finalize_summary` again only if        *)
(* necessary after reviewing the new `summary3.txt`").                     *)
(***************************************************************************)
\* a pass log as a run of main() leaves it: missing (no run yet), empty (no
\* event in range), or holding the pass of one day
LeftLogs ==
    {Absent, File(<<>>)} \cup { File(PassResponse(o) \o BlankLine) : o \in PassOutputs }

InitConsolidator ==
    /\ fs \in { f \in [FileNames -> LeftLogs] :
                  /\ f[Final] = Absent
                  /\ f[Log3] \in {Absent, File(<<>>)} }
    /\ raw = EmptyDict
    /\ pc = "idle"
    /\ runs = 0
    /\ range = NoRange
    /\ ics_files = <<>>
    /\ buckets = <<>>
    /\ run = NoRun
    /\ last = NoCall
    /\ op = NoOp
    /\ ext = NoExt
    /\ env = NoEnv
    /\ san = NoSan
    /\ plog = NoLog

\* one invocation of finalize_summary(llm)
Invoke ==
    /\ op.calls < MaxCalls
    /\ \E output \in Outputs, output3 \in Outputs :
          LET r == finalize_summary(fs, output, output3)
          IN  /\ fs' = r.fs
              /\ last' = CallRecord("operator", fs, r, op.escalated)
              /\ op' = [ calls |-> op.calls + 1,
                         escalated |-> op.escalated \/ r.outcome = "MismatchEscalated" ]
    /\ UNCHANGED <<raw, pc, runs, range, ics_files, buckets, run, ext, env, san, plog>>

NextConsolidator == Invoke

SpecConsolidator == InitConsolidator /\ [][NextConsolidator]_vars

(***************************************************************************)
(* process_ics_file called on one source.                                  *)
(***************************************************************************)
InitExtract ==
    /\ fs = [f \in FileNames |-> Absent]
    /\ raw = EmptyDict
    /\ pc = "idle"
    /\ runs = 0
    /\ range = NoRange
    /\ ics_files = <<>>
    /\ buckets = <<>>
    /\ run = NoRun
    /\ last = NoCall
    /\ op = NoOp
    /\ env = NoEnv
    /\ san = NoSan
    /\ plog = NoLog
    /\ ext \in { [ source |-> src, start_date |-> sd, end_date |-> ed, user_tz |-> tz,
                   called |-> FALSE, result |-> NoResult ] :
                 src \in Sources, sd \in 1..MaxDate, ed \in 1..MaxDate, tz \in UserZones }

Extract ==
    /\ ~ext.called
    /\ LET r == process_ics_file(ext.source, ext.start_date, ext.end_date,
                                 ext.user_tz, raw)
       IN  /\ ext' = [ext EXCEPT !.called = TRUE, !.result = r]
           /\ raw' = r.raw
    /\ UNCHANGED <<fs, pc, runs, range, ics_files, buckets, run, last, op, env, san, plog>>

NextExtract == Extract

SpecExtract == InitExtract /\ [][NextExtract]_vars

(***************************************************************************)
(* sanitize_information called on a text, and again on what it returned.   *)
(***************************************************************************)
\* the pieces the texts are made of: what the eight rules look for, and what
\* may stand before or after it
Fragments ==
    { \* "PIN: 12"
      <<"P", "I", "N", ":", " ", "1", "2">>,
      \* "http://x"
      <<"h", "t", "t", "p", ":", "/", "/", "x">>,
      \* "@b.io"
      <<"@", "b", ".", "i", "o">>,
      \* " "
      <<" ">>,
      \* "a"
      <<"a">>,
      \* "Meeting ID: "
      <<"M", "e", "e", "t", "i", "n", "g", " ", "I", "D", ":", " ">>,
      \* "+1 2 3 4"
      <<"+", "1", " ", "2", " ", "3", " ", "4">>,
      \* "(555) 123-4567"
      <<"(", "5", "5", "5", ")", " ", "1", "2", "3", "-", "4", "5", "6", "7">>,
      \* "Passcode: "
      <<"P", "a", "s", "s", "c", "o", "d", "e", ":", " ">>,
      \* "ID: 123456789"
      <<"I", "D", ":", " ", "1", "2", "3", "4", "5", "6", "7", "8", "9">> }

RECURSIVE Concat(_)
Concat(ss) == IF ss = <<>> THEN <<>> ELSE Head(ss) \o Concat(Tail(ss))

\* the texts sanitize_information is called on
SanitizeInputs == { Concat(ss) : ss \in SeqsUpTo(Fragments, MaxFragments) }

InitSanitize ==
    /\ fs = [f \in FileNames |-> Absent]
    /\ raw = EmptyDict
    /\ pc = "idle"
    /\ runs = 0
    /\ range = NoRange
    /\ ics_files = <<>>
    /\ buckets = <<>>
    /\ run = NoRun
    /\ last = NoCall
    /\ op = NoOp
    /\ ext = NoExt
    /\ env = NoEnv
    /\ plog = NoLog
    /\ san \in { [text |-> t, calls |-> 0, prev |-> t, cur |-> t] : t \in SanitizeInputs }

\* sanitize_information(text), then sanitize_information of its result
Sanitize ==
    /\ san.calls < MaxSanitize
    /\ san' = [san EXCEPT !.calls = @ + 1, !.prev = san.cur,
                          !.cur = sanitize_information(san.cur)]
    /\ UNCHANGED <<fs, raw, pc, runs, range, ics_files, buckets, run, last, op, ext,
                   env, plog>>

NextSanitize == Sanitize

SpecSanitize == InitSanitize /\ [][NextSanitize]_vars

(***************************************************************************)
(* analyze_and_summarize called for one day after the other on a pass log  *)
(* that was just reset.                                                    *)
(***************************************************************************)
\* a summary of two paragraphs: "a\n\nb"
TextParagraphs == <<"a", "\n", "\n", "b">>

\* what the service returns for a day: as for the comparison, or a summary
\* of more than one paragraph
SummaryOutputs == Outputs \cup { [choices |-> <<[text |-> TextParagraphs]>>] }

InitPassLog ==
    /\ fs = ResetLogs([f \in FileNames |-> Absent])
    /\ raw = EmptyDict
    /\ pc = "idle"
    /\ runs = 0
    /\ range = NoRange
    /\ ics_files = <<>>
    /\ buckets = <<>>
    /\ run = NoRun
    /\ last = NoCall
    /\ op = NoOp
    /\ ext = NoExt
    /\ env = NoEnv
    /\ san = NoSan
    /\ plog = NoLog

\* analyze_and_summarize(text, llm, "First Run", event_date, 'summary.txt')
\* for the next day
AppendPass ==
    /\ Len(plog.outputs) < MaxPasses
    /\ \E output \in SummaryOutputs :
          LET a == analyze_and_summarize(fs, <<EventDetails(EvAllDay, 0)>>, output,
                                         Len(plog.outputs) + 1, Log1)
          IN  /\ fs' = a.fs
              /\ plog' = [ outputs |-> Append(plog.outputs, output),
                           responses |-> Append(plog.responses, a.response) ]
    /\ UNCHANGED <<raw, pc, runs, range, ics_files, buckets, run, last, op, ext, env, san>>

NextPassLog == AppendPass

SpecPassLog == InitPassLog /\ [][NextPassLog]_vars

(***************************************************************************)
(* Properties.                                                             *)
(***************************************************************************)
Invoked == last.caller # "none"

\* a log that exists and holds something besides whitespace
NonBlank(file) ==
    file.exists /\ \E i \in 1..Len(file.text) : ~IsSpace(file.text[i])

\* C1: within one invocation of finalize_summary, whatever the service
\* returns, at most one third pass is generated and finalize_summary is
\* entered once only (no recursive call).
C1_EscalationDepthAtMostOne ==
    Invoked => last.entries = 1 /\ last.third_passes <= 1

\* an escalation whose third pass came back empty, where a recursive call
\* would find no third summary and escalate again
C1_Witness ==
    /\ last.outcome = "MismatchEscalated"
    /\ last.third_passes = 1
    /\ ~NonBlank(fs[Log3])

\* C2 (as claimed): once an invocation has escalated over these logs, a later
\* invocation whose comparison response holds the marker ends in
\* MismatchTerminal and generates no further pass, whatever the third pass's
\* text was.
C2_SecondMismatchIsTerminal ==
    (Invoked /\ last.escalated_before /\ Contains(last.final_response, MISMATCH))
        => last.outcome = "MismatchTerminal" /\ last.third_passes = 0

\* C3: a two-way comparison whose response holds the marker appends exactly
\* one entry to summary3.txt: the log's new text is its old text, the third
\* pass's response and a blank line.
C3_EscalationAppendsOneEntry ==
    (Invoked /\ last.prompt.kind = "two_way" /\ Contains(last.final_response, MISMATCH))
        => /\ last.outcome = "MismatchEscalated"
           /\ last.third_passes = 1
           /\ fs[Log3] = File(last.before[Log3].text \o last.third_response \o BlankLine)

\* an escalation over a summary3.txt that already held (blank) text
C3_Witness ==
    /\ last.outcome = "MismatchEscalated"
    /\ last.before[Log3].text # <<>>
    /\ last.third_response # <<>>

\* C4 (as claimed): a comparison response without the marker ends Consistent
\* and final_summary.txt holds exactly the text the service returned.
C4_FinalHoldsExactResponse ==
    (Invoked /\ last.output.choices # <<>>
             /\ ~Contains(last.output.choices[1].text, MISMATCH))
        => /\ last.outcome = "Consistent"
           /\ fs[Final] = File(last.output.choices[1].text)

\* C4 (amended): a comparison response without the marker ends Consistent and
\* final_summary.txt holds the returned text with its leading and trailing
\* whitespace stripped, or "No response generated." when the service returned
\* no choices; earlier content is replaced.
C4_FinalHoldsStrippedResponse ==
    (Invoked /\ ~Contains(last.final_response, MISMATCH))
        => /\ last.outcome = "Consistent"
           /\ fs[Final] = File(IF last.output.choices # <<>>
                               THEN Strip(last.output.choices[1].text)
                               ELSE NoResponse)

\* a Consistent outcome that replaced an earlier report, with a response that
\* had whitespace to strip
C4_Witness ==
    /\ last.outcome = "Consistent"
    /\ last.before[Final].exists
    /\ last.before[Final] # fs[Final]
    /\ last.output.choices # <<>>
    /\ last.output.choices[1].text # fs[Final].text

\* main() has returned
MainDone == pc = "done" /\ last.caller = "main"

\* C5 (as claimed): in a run whose two passes agree on every day and whose
\* comparison ends Consistent, summary3.txt is never created.
C5_Log3NeverCreated ==
    (MainDone /\ run.identical /\ last.outcome = "Consistent") => ~run.log3_created

\* C5 (amended): in such a run summary3.txt is created or truncated, empty,
\* by the reset at the start of the run and nothing is written to it: it
\* exists and is empty at every point of the run after the reset.
C5_Log3StaysEmpty ==
    /\ pc \in {"loop", "days"} => fs[Log3] = File(<<>>)
    /\ (MainDone /\ run.identical /\ last.outcome = "Consistent")
          => fs[Log3] = File(<<>>)

\* a run that summarized two days with agreeing passes and ended Consistent
C5_Witness ==
    /\ MainDone
    /\ run.identical
    /\ run.days >= 2
    /\ last.outcome = "Consistent"
    /\ fs[Log3] = File(<<>>)

\* C6 (as claimed): a three-way comparison whose response holds the marker
\* ends in MismatchTerminal and the response is kept: returned by
\* finalize_summary or written to one of the files.
C6_TerminalCarriesResponse ==
    (Invoked /\ last.prompt.kind = "three_way"
             /\ Contains(last.final_response, MISMATCH))
        => /\ last.outcome = "MismatchTerminal"
           /\ \/ (~last.returned.is_none /\ last.returned.text = last.final_response)
              \/ \E f \in FileNames :
                    /\ fs[f] # last.before[f]
                    /\ Contains(fs[f].text, last.final_response)

\* C7 (as claimed): after a completed run of main() a final_summary.txt holds
\* the text this run produced, never what an earlier run left.
C7_FinalWrittenByEveryRun ==
    (MainDone /\ fs[Final].exists) => fs[Final].text = last.final_response

\* C8: the comparison prompt is the three-way one exactly when summary3.txt
\* exists and holds something besides whitespace; otherwise it is the
\* two-way one.
C8_ThreeWayIffThirdLogNonBlank ==
    Invoked =>
        /\ last.prompt.kind \in {"two_way", "three_way"}
        /\ last.prompt.kind = "three_way" <=> NonBlank(last.before[Log3])

\* the two-way prompt built over a summary3.txt that holds only whitespace
C8_Witness ==
    /\ Invoked
    /\ last.prompt.kind = "two_way"
    /\ last.before[Log3].exists
    /\ last.before[Log3].text # <<>>

Outcomes == {"Consistent", "MismatchEscalated", "MismatchTerminal"}

\* C9: a missing or empty summary.txt or summary2.txt enters the comparison
\* as the empty string and the invocation reaches one of its outcomes.
C9_EmptyLogsCompared ==
    Invoked =>
        /\ last.outcome \in Outcomes
        /\ last.llm_calls >= 1
        /\ last.before[Log1].text = <<>> => last.prompt.text1 = <<>>
        /\ last.before[Log2].text = <<>> => last.prompt.text2 = <<>>

\* a comparison of a missing summary.txt with an empty summary2.txt
C9_Witness ==
    /\ Invoked
    /\ ~last.before[Log1].exists
    /\ last.before[Log2] = File(<<>>)
    /\ last.prompt.text1 = <<>>
    /\ last.outcome = "Consistent"

\* the events process_ics_file is to return for a date: the details of the
\* source's events of that date that are not excluded, in discovery order
Qualifying(source, user_tz, date) ==
    LET Keeps(component) ==
            /\ component.name = "VEVENT"
            /\ ~Contains(Description(component), CreatedBy)
            /\ EventDate(component.dtstart, user_tz) = date
        Details(kept) == [i \in 1..Len(kept) |-> EventDetails(kept[i], user_tz)]
    IN  Details(SelectSeq(source.components, Keeps))

\* the events returned for a date
Returned(result, date) ==
    LET at == { i \in 1..Len(result.sorted_events_by_day) :
                  result.sorted_events_by_day[i].date = date }
    IN  IF at = {} THEN <<>> ELSE result.sorted_events_by_day[CHOOSE i \in at : TRUE].events

\* C10: when process_ics_file returns, every bucket's date lies in
\* start_date..end_date, both ends included, and every event of the source
\* that is not excluded and whose date lies in that range is returned.
C10_ExtractedInRange ==
    (ext.called /\ ~ext.result.raised) =>
        /\ \A i \in 1..Len(ext.result.sorted_events_by_day) :
              /\ ext.start_date <= ext.result.sorted_events_by_day[i].date
              /\ ext.result.sorted_events_by_day[i].date <= ext.end_date
        /\ \A date \in ext.start_date..ext.end_date :
              Returned(ext.result, date) = Qualifying(ext.source, ext.user_tz, date)

\* events returned on the first and on the last day of the range, one of
\* them moved there by the conversion to the user's time zone
C10_Witness ==
    /\ ext.called
    /\ ~ext.result.raised
    /\ ext.start_date < ext.end_date
    /\ ext.user_tz # 0
    /\ Returned(ext.result, ext.start_date) # <<>>
    /\ Returned(ext.result, ext.end_date) # <<>>

\* the buckets process_ics_file returned
Buckets == ext.result.sorted_events_by_day

\* the components of the source that process_ics_file extracts: the events
\* it does not skip and whose date lies in the range
Extracted ==
    LET Keeps(component) ==
            /\ component.name = "VEVENT"
            /\ ~Contains(Description(component), CreatedBy)
            /\ InRange(ext.start_date, EventDate(component.dtstart, ext.user_tz),
                       ext.end_date)
    IN  SelectSeq(ext.source.components, Keeps)

RECURSIVE SumLen(_)
SumLen(bs) ==
    IF bs = <<>> THEN 0 ELSE Len(Head(bs).events) + SumLen(Tail(bs))

\* C11: when process_ics_file returns, its buckets partition the extracted
\* events by date: bucket dates are strictly ascending, no bucket is empty,
\* every event of a bucket carries the bucket's date, and the buckets hold
\* as many events as were extracted, each date's events in its own bucket.
C11_BucketsPartitionByDate ==
    (ext.called /\ ~ext.result.raised) =>
        /\ \A i \in 1..Len(Buckets) - 1 : Buckets[i].date < Buckets[i + 1].date
        /\ \A i \in 1..Len(Buckets) :
              /\ Buckets[i].events # <<>>
              /\ \A j \in 1..Len(Buckets[i].events) :
                    Buckets[i].events[j].Time.day = Buckets[i].date
              /\ Buckets[i].events
                    = Qualifying(ext.source, ext.user_tz, Buckets[i].date)
        /\ SumLen(Buckets) = Len(Extracted)

\* two buckets returned in date order for a source that lists the later
\* event first
C11_Witness ==
    /\ ext.called
    /\ ~ext.result.raised
    /\ Len(Buckets) = 2
    /\ Len(ext.source.components) = 2
    /\ EventDate(ext.source.components[1].dtstart, ext.user_tz)
          > EventDate(ext.source.components[2].dtstart, ext.user_tz)

\* C12 (as claimed): an event whose DESCRIPTION holds the phrase "This event
\* was created by" is in no bucket process_ics_file returns, whatever else
\* the description holds.
C12_MarkedEventExcluded ==
    (ext.called /\ ~ext.result.raised) =>
        \A k \in 1..Len(ext.source.components) :
            LET component == ext.source.components[k]
            IN  (component.name = "VEVENT"
                    /\ Contains(component.description.text, CreatedBy))
                => \A i \in 1..Len(Buckets) :
                      \A j \in 1..Len(Buckets[i].events) :
                          Buckets[i].events[j] # EventDetails(component, ext.user_tz)

\* C13 (as claimed): sanitize_information applied to its own result returns
\* that result unchanged.
C13_SanitizeIdempotent ==
    san.calls >= 2 => san.cur = san.prev

\* the matches re.sub finds for a pattern in s from position i on, each by
\* its first position and the position after its last
RECURSIVE SpansFrom(_, _, _)
SpansFrom(pattern, s, i) ==
    IF i > Len(s) THEN <<>>
    ELSE LET ends == MatchSeq(pattern, s, i)
         IN  IF ends # <<>> /\ Head(ends) > i
             THEN <<[from |-> i, to |-> Head(ends)]>> \o SpansFrom(pattern, s, Head(ends))
             ELSE SpansFrom(pattern, s, i + 1)

\* the positions of a text that lie in a match of some rule in that text
Covered(text) ==
    { k \in 1..Len(text) :
        \E p \in 1..Len(patterns) :
            \E sp \in Range(SpansFrom(patterns[p], text, 1)) : sp.from <= k /\ k < sp.to }

\* re.sub on the positions the characters of s came from: o[k] is the
\* position s[k] had in the original text, 0 for a character of '[redacted]'
RECURSIVE SubOrigins(_, _, _, _)
SubOrigins(pattern, s, o, i) ==
    IF i > Len(s) THEN <<>>
    ELSE LET ends == MatchSeq(pattern, s, i)
         IN  IF ends # <<>> /\ Head(ends) > i
             THEN [k \in 1..Len(Redacted) |-> 0] \o SubOrigins(pattern, s, o, Head(ends))
             ELSE <<o[i]>> \o SubOrigins(pattern, s, o, i + 1)

RECURSIVE OriginsAfter(_, _, _)
OriginsAfter(pats, text, o) ==
    IF pats = <<>> THEN o
    ELSE OriginsAfter(Tail(pats), Sub(Head(pats), text),
                      SubOrigins(Head(pats), text, o, 1))

\* for each character of sanitize_information(text), where it came from
Origins(text) == OriginsAfter(patterns, text, [k \in 1..Len(text) |-> k])

\* C14 (as claimed): no character of the input that lies in a match of some
\* rule in the input is left in what sanitize_information returns.
C14_OriginalMatchesRedacted ==
    san.calls = 1 =>
        /\ Len(Origins(san.text)) = Len(san.cur)
        /\ \A k \in 1..Len(san.cur) : Origins(san.text)[k] \notin Covered(san.text)

\* C15 (as claimed): a pass whose service response carries no choices, or a
\* choice whose text is empty, is recorded as "No response generated.".
C15_SentinelOnEmptyResponse ==
    \A k \in 1..Len(plog.outputs) :
        (plog.outputs[k].choices = <<>> \/ plog.outputs[k].choices[1].text = <<>>)
            => plog.responses[k] = NoResponse

\* str.split(sep) from position i on, the current piece having begun at
\* position start
RECURSIVE SplitFrom(_, _, _, _)
SplitFrom(s, sep, i, start) ==
    IF i > Len(s) THEN <<SubSeq(s, start, Len(s))>>
    ELSE IF s[i] = sep[1] /\ i + Len(sep) - 1 <= Len(s)
                          /\ SubSeq(s, i, i + Len(sep) - 1) = sep
    THEN <<SubSeq(s, start, i - 1)>> \o SplitFrom(s, sep, i + Len(sep), i + Len(sep))
    ELSE SplitFrom(s, sep, i + 1, start)

\* the entries of a log: what stands between its blank lines, the last entry
\* being closed by a blank line too
ReadEntries(text) ==
    LET pieces == SplitFrom(text, BlankLine, 1, 1)
    IN  IF pieces[Len(pieces)] = <<>> THEN SubSeq(pieces, 1, Len(pieces) - 1)
        ELSE pieces

\* C16 (as claimed): the entries read back from a pass log that was reset
\* and then appended to are the summaries written, one per day, in the
\* order written.
C16_LogReadsBackAsWritten ==
    ReadEntries(fs[Log1].text) = plog.responses

IsPrefix(a, b) == Len(a) <= Len(b) /\ SubSeq(b, 1, Len(a)) = a

PassLogs == {Log1, Log2, Log3}

\* C17: every step of a run of main() other than the start of a run, where
\* the three logs are reset, keeps each pass log in existence and keeps its
\* content as a prefix of its new content: analyze_and_summarize only
\* appends, and nothing else shortens a log.
C17_PassLogsOnlyGrow ==
    [][ runs' = runs =>
            \A f \in PassLogs :
                /\ fs[f].exists => fs'[f].exists
                /\ IsPrefix(fs[f].text, fs'[f].text) ]_vars

\* a run that follows one that wrote its report and that, after its reset,
\* appended the passes of two days, the two logs holding different texts
C17_Witness ==
    /\ runs = 2
    /\ fs[Final].exists
    /\ run.days >= 2
    /\ fs[Log1].text # fs[Log2].text
    /\ Len(ReadEntries(fs[Log1].text)) = 2

\* the number of day buckets process_ics_file returns for each file, range
\* and zone, as a table computed once
DayBuckets ==
    [ f \in DOMAIN Calendars, sd \in 1..MaxDate, ed \in 1..MaxDate, tz \in UserZones |->
        Len(process_ics_file(Calendars[f], sd, ed, tz, EmptyDict).sorted_events_by_day) ]

\* the day buckets of the sources of the run, all together
RECURSIVE DaysOf(_)
DaysOf(files) ==
    IF files = <<>> THEN 0
    ELSE DayBuckets[Head(files), range.start_date, range.end_date, range.user_tz]
         + DaysOf(Tail(files))

\* the for loop of main() has ended: finalize_summary is called next
LoopEnded == pc = "loop" /\ ics_files = <<>>

C19_EntriesInDateOrder ==
    \A i \in 1..Len(run.dates) - 1 : run.dates[i] <= run.dates[i + 1]

\* C20 (as claimed): with an invalid date range main() goes no further: it
\* does not reset the logs, read a source or call the service.  A date that
\* does not parse leaves no range at all (strptime raises in MainStart); the
\* range the formula looks at is one whose end date is before its start
\* date.
C20_InvalidRangeIsFatal ==
    range.end_date < range.start_date => pc \notin {"loop", "days", "done"}

\* C21 (as claimed): a run of main() in which no event of any source lies
\* in the date range returns, and the final_summary.txt it leaves is an
\* empty report.
C21_EmptyRangeGivesEmptyReport ==
    (MainDone /\ run.days = 0) => fs[Final] = File(<<>>)

\* C22 (as claimed): a run of main() that got past its prompts does not end
\* at a source: one that cannot be read or parsed is skipped, and the run
\* goes on to the other sources and to finalize_summary.
C22_UnparsableSourceSkipped ==
    range # NoRange => pc # "crashed"

\* the day buckets process_ics_file returns for each file, range and zone,
\* as a table computed once
BucketsOf ==
    [ f \in DOMAIN Calendars, sd \in 1..MaxDate, ed \in 1..MaxDate, tz \in UserZones |->
        process_ics_file(Calendars[f], sd, ed, tz, EmptyDict).sorted_events_by_day ]

\* the buckets of the files of a run, one file after the other
RECURSIVE Batches(_)
Batches(files) ==
    IF files = <<>> THEN <<>>
    ELSE BucketsOf[Head(files), range.start_date, range.end_date, range.user_tz]
         \o Batches(Tail(files))

\* the sources of the run that have a bucket for a date
SourcesWith(date) ==
    { i \in 1..Len(env.listing) :
        \E b \in Range(Batches(<<env.listing[i]>>)) : b.date = date }

C24_ThirdPassOverBothSummaries ==
    (Invoked /\ last.outcome = "MismatchEscalated") =>
        /\ last.third_prompt.text
              = ReadLog(last.before, Log1) \o <<"\n">> \o ReadLog(last.before, Log2)
        /\ fs[Log3].text = last.before[Log3].text \o last.third_response \o BlankLine
        /\ \A f \in FileNames \ {Log3} : fs[f] = last.before[f]

\* an escalation over two logs that hold different summaries
C24_Witness ==
    /\ last.outcome = "MismatchEscalated"
    /\ ReadLog(last.before, Log1) # <<>>
    /\ last.before[Log2].exists
    /\ ReadLog(last.before, Log1) # ReadLog(last.before, Log2)
    /\ last.third_prompt.text # <<"\n">>

\* C25: whatever its outcome, an invocation of finalize_summary leaves
\* summary.txt and summary2.txt as they were: missing if they were missing,
\* with the same content otherwise.
C25_FirstTwoLogsUntouched ==
    Invoked =>
        /\ last.outcome \in Outcomes
        /\ fs[Log1] = last.before[Log1]
        /\ fs[Log2] = last.before[Log2]

\* a report written over two logs that hold summaries
C25_Witness ==
    /\ last.outcome = "Consistent"
    /\ fs[Final].exists
    /\ fs[Log1].text # <<>>
    /\ fs[Log2].text # <<>>
    /\ fs[Log1] # fs[Log2]

\* C26 (as claimed): every run of main() that has ended has truncated
\* summary3.txt and invoked finalize_summary once, on a blank summary3.txt.
C26_EveryRunFinalizesOnce ==
    pc \in {"done", "crashed", "exited"} =>
        /\ Invoked
        /\ last.entries = 1
        /\ ~NonBlank(last.before[Log3])

\* C26 (amended): in a run of main() that gets past its prompts and checks,
\* summary3.txt holds no pass while the days are summarized and
\* finalize_summary is not invoked before the loop has ended; the one
\* invocation the run then makes finds summary3.txt blank: its comparison
\* is the two-way one and it does not end in the terminal mismatch, also
\* when an earlier run had left a third pass.
C26_MainComparesTwoWay ==
    /\ pc \in {"loop", "days"} => ~NonBlank(fs[Log3]) /\ ~Invoked
    /\ MainDone =>
          /\ ~NonBlank(last.before[Log3])
          /\ last.prompt.kind = "two_way"
          /\ last.outcome \in {"Consistent", "MismatchEscalated"}
          /\ last.entries = 1

\* a run whose reset erased the third pass of the run before it, and that
\* escalated in its turn
C26_Witness ==
    /\ MainDone
    /\ run.third_erased
    /\ last.outcome = "MismatchEscalated"
    /\ NonBlank(fs[Log3])

\* C27: an invocation of finalize_summary calls the service once for the
\* comparison and has one of three effects: the report is written and
\* summary3.txt is left alone; or one third pass is appended to
\* summary3.txt and the report is left alone; or no file changes.
C27_OneComparisonOneEffect ==
    Invoked =>
        /\ last.llm_calls - last.third_passes = 1
        /\ \/ /\ last.outcome = "Consistent"
              /\ last.third_passes = 0
              /\ fs[Final] = File(last.final_response)
              /\ fs[Log3] = last.before[Log3]
           \/ /\ last.outcome = "MismatchEscalated"
              /\ last.third_passes = 1
              /\ fs[Final] = last.before[Final]
              /\ fs[Log3] = File(last.before[Log3].text \o last.third_response \o BlankLine)
           \/ /\ last.outcome = "MismatchTerminal"
              /\ last.third_passes = 0
              /\ fs = last.before

\* the three effects one after the other: a report written, then a third
\* pass, then a terminal mismatch that leaves both in place
C27_Witness ==
    /\ op.calls = 3
    /\ last.outcome = "MismatchTerminal"
    /\ fs[Final].exists
    /\ NonBlank(fs[Log3])

=============================================================================
